---- MODULE Spec2Model ----
(***************************************************************************)
(* Model of the skeletal_animation core: AnimationClip time sampling       *)
(* (src/src/animation.rs), blend tree construction and evaluation          *)
(* (src/src/blend_tree.rs) and global pose resolution                      *)
(* (calculate_global_poses, src/src/animation.rs).                         *)
(*                                                                         *)
(* f32 values are modelled as exact extended rationals <<n, d>>:           *)
(*   d > 0  : the finite number n/d in lowest terms                        *)
(*   <<1,0>>, <<-1,0>> : +infinity, -infinity                              *)
(*   <<0,0>>           : NaN (one value, equal to itself)                  *)
(* Rounding of f32 is not modelled.  Square roots are taken only of        *)
(* squares of rationals; the data below keeps every quaternion of a joint  *)
(* on one ray so that every magnitude is rational.                         *)
(*                                                                         *)
(* blend_tree.rs calls clip.get_pose_at_time and math::lerp_quaternion;    *)
(* they are modelled by AnimationClip::get_interpolated_poses_at_time and  *)
(* lerp_quaternion of animation.rs, which the trait implementations of     *)
(* animation.rs (ClipNode, LerpNode) call for the same purpose.            *)
(* math::quaternion_to_matrix has no source here and is the standard       *)
(* conversion of a quaternion (w, [x, y, z]) to a row-major matrix.        *)
(***************************************************************************)
EXTENDS Integers, Sequences, FiniteSets, TLC

(***************************************************************************)
(* Bounds of the model                                                     *)
(***************************************************************************)
\* joints per sample (skeleton joint count of the blend-tree model)
JointCount == 2
\* elapsed times are k/4 seconds, k in 0..MaxTick
MaxTick == 8
\* whole loops added to a time when comparing looped evaluations
MaxLoops == 2

(***************************************************************************)
(* Program constants                                                       *)
(***************************************************************************)
\* capacity of the Lerp scratch array input_poses
ScratchCap == 64

(***************************************************************************)
(* f32 arithmetic on extended rationals                                    *)
(***************************************************************************)
Abs(n) == IF n < 0 THEN -n ELSE n

Sign(n) == IF n < 0 THEN -1 ELSE IF n > 0 THEN 1 ELSE 0

RECURSIVE GCD(_, _)
GCD(a, b) == IF b = 0 THEN a ELSE GCD(b, a % b)

Norm(n, d) ==
    IF d = 0 THEN <<Sign(n), 0>>
    ELSE LET g == GCD(Abs(n), Abs(d))
         IN  <<Sign(d) * Sign(n) * (Abs(n) \div g), Abs(d) \div g>>

R(n, d) == Norm(n, d)

Zero == <<0, 1>>
One == <<1, 1>>
NaN == <<0, 0>>

IsNaN(x) == x = NaN
IsInf(x) == x[2] = 0 /\ x[1] # 0
IsFinite(x) == x[2] > 0

RNeg(x) == <<-x[1], x[2]>>

RAdd(x, y) ==
    IF IsNaN(x) \/ IsNaN(y) THEN NaN
    ELSE IF IsInf(x) /\ IsInf(y) THEN (IF x = y THEN x ELSE NaN)
    ELSE IF IsInf(x) THEN x
    ELSE IF IsInf(y) THEN y
    ELSE Norm(x[1] * y[2] + y[1] * x[2], x[2] * y[2])

RSub(x, y) == RAdd(x, RNeg(y))

\* inf * 0 and NaN * anything give <<0,0>>
RMul(x, y) == Norm(x[1] * y[1], x[2] * y[2])

Recip(x) == IF x[1] < 0 THEN <<-x[2], -x[1]>> ELSE <<x[2], x[1]>>

\* 0/0 = NaN, x/0 = +-inf
RDiv(x, y) == RMul(x, Recip(y))

ISqrt(n) == CHOOSE k \in 0..n : k * k = n

\* f32::sqrt, defined here on squares of rationals only
RSqrt(x) ==
    IF x[1] < 0 THEN NaN
    ELSE IF x[2] = 0 THEN x
    ELSE <<ISqrt(x[1]), ISqrt(x[2])>>

\* f32::floor / f32::ceil followed by `as usize`, for finite x >= 0
Floor(x) == x[1] \div x[2]

Ceil(x) == (x[1] + x[2] - 1) \div x[2]

(***************************************************************************)
(* SQT and the blend primitives                                            *)
(***************************************************************************)
SQT(s, t, r) == [scale |-> s, translation |-> t, rotation |-> r]

V3(a, b, c) == <<R(a, 1), R(b, 1), R(c, 1)>>

QW == <<One, Zero, Zero, Zero>>
QH == <<R(1, 2), R(1, 2), R(1, 2), R(1, 2)>>
QZero == <<Zero, Zero, Zero, Zero>>

QScale(c, q) == [k \in 1..4 |-> RMul(c, q[k])]

\* the initial element of the scratch array input_poses
ZeroSQT == SQT(Zero, V3(0, 0, 0), QZero)

IdentitySQT == SQT(One, V3(0, 0, 0), QW)

\* interpolation::lerp for f32: a + (b - a) * t
lerp(a, b, t) == RAdd(a, RMul(RSub(b, a), t))

\* interpolation::lerp for [f32; 3], componentwise
lerp3(a, b, t) == [k \in 1..3 |-> lerp(a[k], b[k], t)]

lerp_quaternion(q1, q2, blend_factor) ==
    LET blend_factor_recip == RSub(One, blend_factor)
        w == RAdd(RMul(blend_factor_recip, q1[1]), RMul(blend_factor, q2[1]))
        x == RAdd(RMul(blend_factor_recip, q1[2]), RMul(blend_factor, q2[2]))
        y == RAdd(RMul(blend_factor_recip, q1[3]), RMul(blend_factor, q2[3]))
        z == RAdd(RMul(blend_factor_recip, q1[4]), RMul(blend_factor, q2[4]))
        len == RSqrt(RAdd(RAdd(RMul(w, w), RMul(x, x)),
                          RAdd(RMul(y, y), RMul(z, z))))
    IN  <<RDiv(w, len), RDiv(x, len), RDiv(y, len), RDiv(z, len)>>

\* the three assignments that blend pose_1 and pose_2 by blend_factor
BlendPose(pose_1, pose_2, blend_factor) ==
    SQT(lerp(pose_1.scale, pose_2.scale, blend_factor),
        lerp3(pose_1.translation, pose_2.translation, blend_factor),
        lerp_quaternion(pose_1.rotation, pose_2.rotation, blend_factor))

(***************************************************************************)
(* Clip data.  Handles 1..4 are the clips registered under the names       *)
(* "A".."D"; handle 5 is a clip without samples.  A sample is a sequence   *)
(* of JointCount SQTs.  Rotations of joint j in clips C and D lie on       *)
(* Ray(j), those of clips A and B are the identity quaternion.             *)
(***************************************************************************)
Joints == 1..JointCount

Ray(j) == IF j % 2 = 1 THEN QW ELSE QH

\* clip A: two samples, identity poses throughout
SamplesA == [s \in 1..2 |-> [j \in Joints |-> IdentitySQT]]

\* clip B: two samples, translation [0,1,0] at sample index 1 only
SamplesB ==
    [s \in 1..2 |-> [j \in Joints |->
        IF s = 2 THEN SQT(One, V3(0, 1, 0), QW) ELSE IdentitySQT]]

\* clip C: three samples, growing scale and translation, rotation flipping
\* to the antipodal quaternion at sample index 1
SamplesC ==
    [s \in 1..3 |-> [j \in Joints |->
        SQT(R(s, 1), V3(s, j, 0),
            QScale(IF s = 2 THEN R(-1, 1) ELSE One, Ray(j)))]]

\* clip D: two samples, scale 2, rotation flipping on even joints
SamplesD ==
    [s \in 1..2 |-> [j \in Joints |->
        SQT(R(2, 1), V3(0, 0, j * s),
            QScale(IF s = 2 /\ j % 2 = 0 THEN R(-1, 1) ELSE One, Ray(j)))]]

AnimationClip(samples, rate) ==
    [samples |-> samples, samples_per_second |-> rate]

Handles == 1..5

InitClips ==
    [h \in Handles |->
        CASE h = 1 -> AnimationClip(SamplesA, R(2, 1))
          [] h = 2 -> AnimationClip(SamplesB, R(2, 1))
          [] h = 3 -> AnimationClip(SamplesC, R(2, 1))
          [] h = 4 -> AnimationClip(SamplesD, R(1, 1))
          [] OTHER -> AnimationClip(<<>>, R(1, 1))]

\* the name -> clip mapping handed to from_def
animations == [id \in {"A", "B", "C", "D"} |->
                  CASE id = "A" -> 1 [] id = "B" -> 2 [] id = "C" -> 3 [] OTHER -> 4]

Times == {R(k, 4) : k \in 0..MaxTick}

Durations == {R(1, 1), R(2, 1)}

Min(a, b) == IF a < b THEN a ELSE b

(***************************************************************************)
(* AnimationClip                                                           *)
(***************************************************************************)
\* sample_at_time clamping at the last sample instead of wrapping
sample_at_time_clamped(clip, elapsed_time) ==
    IF Len(clip.samples) = 0
    THEN [err |-> "remainder_by_zero", index |-> 0]
    ELSE [err |-> "none",
          index |-> Min(Floor(RMul(elapsed_time, clip.samples_per_second)),
                        Len(clip.samples) - 1)]

\* index (0-based) of the sample returned by sample_at_time, or the panic
sample_at_time(clip, elapsed_time) ==
    IF Len(clip.samples) = 0
    THEN [err |-> "remainder_by_zero", index |-> 0]
    ELSE [err |-> "none",
          index |-> Floor(RMul(elapsed_time, clip.samples_per_second))
                        % Len(clip.samples)]

set_duration(clip, duration) ==
    AnimationClip(clip.samples, RDiv(R(Len(clip.samples), 1), duration))

\* the computation of get_interpolated_poses_at_time with interpolated_index
\* and the index blend_factor is measured from left open; used to state
\* the variants of it below
InterpolatedPoses(clip, interpolated_index, factor_base, blended_poses) ==
    LET floor_index == Floor(interpolated_index)
        ceil_index == Ceil(interpolated_index)
        index_1 == floor_index % Len(clip.samples)
        index_2 == ceil_index % Len(clip.samples)
        blend_factor ==
            RSub(interpolated_index,
                 R(IF factor_base = "wrapped" THEN index_1 ELSE floor_index, 1))
        sample_1 == clip.samples[index_1 + 1]
        sample_2 == clip.samples[index_2 + 1]
        written == Min(Len(sample_1), Min(Len(sample_2), Len(blended_poses)))
    IN  [out |-> [i \in 1..Len(blended_poses) |->
                    IF i <= written
                    THEN BlendPose(sample_1[i], sample_2[i], blend_factor)
                    ELSE blended_poses[i]],
         err |-> IF written < Len(sample_1)
                 THEN "index_out_of_bounds" ELSE "none"]

\* get_interpolated_poses_at_time taking blend_factor after the modulo
get_interpolated_poses_factor_after_modulo(clip, elapsed_time, blended_poses) ==
    IF Len(clip.samples) = 0
    THEN [out |-> blended_poses, err |-> "remainder_by_zero"]
    ELSE InterpolatedPoses(clip, RMul(elapsed_time, clip.samples_per_second),
                           "wrapped", blended_poses)

\* get_interpolated_poses_at_time whose loop stops one joint early
get_interpolated_poses_short_loop(clip, elapsed_time, blended_poses) ==
    IF Len(clip.samples) = 0
    THEN [out |-> blended_poses, err |-> "remainder_by_zero"]
    ELSE LET r == InterpolatedPoses(clip,
                      RMul(elapsed_time, clip.samples_per_second), "floor",
                      blended_poses)
             last == Len(clip.samples[1])
         IN  [out |-> [i \in 1..Len(blended_poses) |->
                          IF i = last THEN blended_poses[i] ELSE r.out[i]],
              err |-> r.err]

\* get_interpolated_poses_at_time indexing by elapsed_time, without the rate
get_interpolated_poses_without_rate(clip, elapsed_time, blended_poses) ==
    IF Len(clip.samples) = 0
    THEN [out |-> blended_poses, err |-> "remainder_by_zero"]
    ELSE InterpolatedPoses(clip, elapsed_time, "floor", blended_poses)

\* returns the buffer after the call and the panic that ended it, if any
get_interpolated_poses_at_time(clip, elapsed_time, blended_poses) ==
    LET interpolated_index == RMul(elapsed_time, clip.samples_per_second)
        floor_index == Floor(interpolated_index)
        ceil_index == Ceil(interpolated_index)
        blend_factor == RSub(interpolated_index, R(floor_index, 1))
    IN  IF Len(clip.samples) = 0
        THEN [out |-> blended_poses, err |-> "remainder_by_zero"]
        ELSE
        LET index_1 == floor_index % Len(clip.samples)
            index_2 == ceil_index % Len(clip.samples)
            sample_1 == clip.samples[index_1 + 1]
            sample_2 == clip.samples[index_2 + 1]
            written == Min(Len(sample_1), Min(Len(sample_2), Len(blended_poses)))
        IN  [out |-> [i \in 1..Len(blended_poses) |->
                        IF i <= written
                        THEN BlendPose(sample_1[i], sample_2[i], blend_factor)
                        ELSE blended_poses[i]],
             err |-> IF written < Len(sample_1)
                     THEN "index_out_of_bounds" ELSE "none"]

(***************************************************************************)
(* Blend tree definitions and runtime nodes                                *)
(***************************************************************************)
DefLerp(input_1, input_2, param_id) ==
    [type |-> "LerpNode", input_1 |-> input_1, input_2 |-> input_2,
     param |-> param_id]

DefClip(clip_id) == [type |-> "ClipNode", clip_id |-> clip_id]

LerpNode(input_1, input_2, param_name) ==
    [type |-> "LerpNode", input_1 |-> input_1, input_2 |-> input_2,
     param |-> param_name]

\* a ClipNode holds the shared clip itself (its handle), not a copy
ClipNode(clip) == [type |-> "ClipNode", clip |-> clip]

NoTree == [type |-> "None"]

\* the definitions handed to from_def; "X" names no clip
Defs ==
    { DefClip("A"), DefClip("C"), DefClip("X"),
      DefLerp(DefClip("A"), DefClip("B"), "w"),
      DefLerp(DefClip("C"), DefClip("D"), "w"),
      DefLerp(DefClip("C"), DefClip("C"), "v"),
      DefLerp(DefLerp(DefClip("A"), DefClip("B"), "w"), DefClip("B"), "v"),
      DefLerp(DefClip("D"), DefLerp(DefClip("C"), DefClip("D"), "v"), "w"),
      DefLerp(DefClip("A"), DefClip("X"), "w"),
      DefLerp(DefLerp(DefClip("X"), DefClip("B"), "w"), DefClip("X"), "v") }

\* from_def falling back to the clip of handle 1 for an unknown identifier
RECURSIVE from_def_default_clip(_, _)
from_def_default_clip(def, anims) ==
    IF def.type = "LerpNode"
    THEN [err |-> "none",
          node |-> LerpNode(from_def_default_clip(def.input_1, anims).node,
                            from_def_default_clip(def.input_2, anims).node,
                            def.param)]
    ELSE [err |-> "none",
          node |-> ClipNode(IF def.clip_id \in DOMAIN anims
                            THEN anims[def.clip_id] ELSE 1)]

RECURSIVE from_def(_, _)
from_def(def, anims) ==
    IF def.type = "LerpNode"
    THEN LET n1 == from_def(def.input_1, anims)
             n2 == from_def(def.input_2, anims)
         IN  IF n1.err # "none" THEN n1
             ELSE IF n2.err # "none" THEN n2
             ELSE [err |-> "none",
                   node |-> LerpNode(n1.node, n2.node, def.param)]
    ELSE IF def.clip_id \in DOMAIN anims
         THEN [err |-> "none", node |-> ClipNode(anims[def.clip_id])]
         ELSE [err |-> "missing_clip", node |-> NoTree]

ParamNames == {"w", "v"}

Weights == {R(0, 1), R(1, 2), R(1, 1)}

\* the params mappings handed to get_output_pose
ParamMaps == UNION {[names -> Weights] : names \in SUBSET ParamNames}

\* the Lerp loop over the output buffer
BlendBuffers(input_poses, output_poses, blend_parameter) ==
    [i \in 1..Len(output_poses) |->
        BlendPose(input_poses[i], output_poses[i], blend_parameter)]

\* get_output_pose blending by 0 when the parameter is absent
RECURSIVE get_output_pose_default_param(_, _, _, _, _)
get_output_pose_default_param(node, clps, elapsed_time, params, output_poses) ==
    IF node.type = "LerpNode"
    THEN LET sample_count == Len(output_poses)
         IN  IF sample_count > ScratchCap
             THEN [out |-> output_poses, err |-> "slice_out_of_range"]
             ELSE
             LET r1 == get_output_pose_default_param(
                           node.input_1, clps, elapsed_time, params,
                           [i \in 1..sample_count |-> ZeroSQT])
                 r2 == get_output_pose_default_param(
                           node.input_2, clps, elapsed_time, params, output_poses)
             IN  IF r1.err # "none"
                 THEN [out |-> output_poses, err |-> r1.err]
                 ELSE IF r2.err # "none" THEN r2
                 ELSE [out |-> BlendBuffers(r1.out, r2.out,
                                  IF node.param \in DOMAIN params
                                  THEN params[node.param] ELSE Zero),
                       err |-> "none"]
    ELSE get_interpolated_poses_at_time(clps[node.clip], elapsed_time,
                                        output_poses)

\* get_output_pose taking the scratch slice only after input_2 was
\* evaluated into the output buffer
RECURSIVE get_output_pose_late_slice(_, _, _, _, _)
get_output_pose_late_slice(node, clps, elapsed_time, params, output_poses) ==
    IF node.type = "LerpNode"
    THEN LET sample_count == Len(output_poses)
             r2 == get_output_pose_late_slice(node.input_2, clps, elapsed_time,
                                              params, output_poses)
         IN  IF r2.err # "none" THEN r2
             ELSE IF sample_count > ScratchCap
             THEN [out |-> r2.out, err |-> "slice_out_of_range"]
             ELSE
             LET r1 == get_output_pose_late_slice(
                           node.input_1, clps, elapsed_time, params,
                           [i \in 1..sample_count |-> ZeroSQT])
             IN  IF r1.err # "none"
                 THEN [out |-> r2.out, err |-> r1.err]
                 ELSE IF node.param \notin DOMAIN params
                 THEN [out |-> r2.out, err |-> "missing_param"]
                 ELSE [out |-> BlendBuffers(r1.out, r2.out, params[node.param]),
                       err |-> "none"]
    ELSE get_interpolated_poses_at_time(clps[node.clip], elapsed_time,
                                        output_poses)

\* returns the output buffer after the call and the panic that ended it
RECURSIVE get_output_pose(_, _, _, _, _)
get_output_pose(node, clps, elapsed_time, params, output_poses) ==
    IF node.type = "LerpNode"
    THEN LET sample_count == Len(output_poses)
         IN  IF sample_count > ScratchCap
             THEN [out |-> output_poses, err |-> "slice_out_of_range"]
             ELSE
             LET r1 == get_output_pose(node.input_1, clps, elapsed_time, params,
                                       [i \in 1..sample_count |-> ZeroSQT])
             IN  IF r1.err # "none"
                 THEN [out |-> output_poses, err |-> r1.err]
                 ELSE
                 LET r2 == get_output_pose(node.input_2, clps, elapsed_time,
                                           params, output_poses)
                 IN  IF r2.err # "none" THEN r2
                     ELSE IF node.param \notin DOMAIN params
                     THEN [out |-> r2.out, err |-> "missing_param"]
                     ELSE [out |-> BlendBuffers(r1.out, r2.out,
                                                params[node.param]),
                           err |-> "none"]
    ELSE get_interpolated_poses_at_time(clps[node.clip], elapsed_time,
                                        output_poses)

(***************************************************************************)
(* State.  The library is single-threaded call-and-return: from "idle" one *)
(* operation is called with its arguments, runs to its return or panic     *)
(* ("done"), and the caller takes the result (Return).  The output buffer  *)
(* is an argument of the call; out and prior hold it after and before the  *)
(* call.                                                                   *)
(***************************************************************************)
VARIABLES
    clips,        \* handle -> AnimationClip (the shared clips)
    tree,         \* the runtime BlendTreeNode built last, or NoTree
    pc,           \* "idle" or "done"
    lastOp,       \* the operation called last
    err,          \* its panic, "none" if it returned
    out,          \* the output buffer after the call
    prior,        \* the output buffer as the caller passed it
    lastDef,      \* from_def: the definition converted
    lastClip,     \* clip operations: the handle of the clip used
    lastT,        \* elapsed_time of the call
    lastParams,   \* params of the call
    sampleIdx,    \* sample_at_time: index of the sample returned
    skeleton,     \* calculate_global_poses: parent_index of each joint
    local_poses,  \* calculate_global_poses: the local poses passed
    global_poses, \* calculate_global_poses: the Vec being built
    joint_index   \* calculate_global_poses: joints visited so far

poseVars == <<skeleton, local_poses, global_poses, joint_index>>

vars == <<clips, tree, pc, lastOp, err, out, prior, lastDef, lastClip, lastT,
          lastParams, sampleIdx, skeleton, local_poses, global_poses,
          joint_index>>

Buffer(L, fill) == [i \in 1..L |-> fill]

\* what a caller's buffer may hold before an evaluation
Fills == {ZeroSQT, SQT(R(2, 1), V3(1, 2, 3), QW)}

NoDef == DefClip("")

\* the record of a call: operation, arguments and results
Call(op, e, o, p, def, h, t, params, idx) ==
    /\ pc' = "done"
    /\ lastOp' = op
    /\ err' = e
    /\ out' = o
    /\ prior' = p
    /\ lastDef' = def
    /\ lastClip' = h
    /\ lastT' = t
    /\ lastParams' = params
    /\ sampleIdx' = idx
    /\ UNCHANGED poseVars

Init ==
    /\ clips = InitClips
    /\ tree = NoTree
    /\ pc = "idle"
    /\ lastOp = "none"
    /\ err = "none"
    /\ out = <<>>
    /\ prior = <<>>
    /\ lastDef = NoDef
    /\ lastClip = 0
    /\ lastT = Zero
    /\ lastParams = <<>>
    /\ sampleIdx = 0
    /\ skeleton = <<>>
    /\ local_poses = <<>>
    /\ global_poses = <<>>
    /\ joint_index = 0

\* the caller has taken the result of the last call
Return ==
    /\ pc = "done"
    /\ pc' = "idle"
    /\ lastOp' = "none"
    /\ err' = "none"
    /\ out' = <<>>
    /\ prior' = <<>>
    /\ lastDef' = NoDef
    /\ lastClip' = 0
    /\ lastT' = Zero
    /\ lastParams' = <<>>
    /\ sampleIdx' = 0
    /\ skeleton' = <<>>
    /\ local_poses' = <<>>
    /\ global_poses' = <<>>
    /\ joint_index' = 0
    /\ UNCHANGED <<clips, tree>>

FromDef(def) ==
    /\ pc = "idle"
    /\ LET r == from_def(def, animations)
       IN  /\ tree' = IF r.err = "none" THEN r.node ELSE tree
           /\ Call("from_def", r.err, <<>>, <<>>, def, 0, Zero, <<>>, 0)
    /\ UNCHANGED clips

GetOutputPose(elapsed_time, params, output_poses) ==
    /\ pc = "idle"
    /\ tree # NoTree
    /\ LET r == get_output_pose(tree, clips, elapsed_time, params, output_poses)
       IN  Call("get_output_pose", r.err, r.out, output_poses, NoDef, 0,
                elapsed_time, params, 0)
    /\ UNCHANGED <<clips, tree>>

SampleAtTime(h, elapsed_time) ==
    /\ pc = "idle"
    /\ LET r == sample_at_time(clips[h], elapsed_time)
       IN  Call("sample_at_time", r.err, <<>>, <<>>, NoDef, h, elapsed_time,
                <<>>, r.index)
    /\ UNCHANGED <<clips, tree>>

GetInterpolatedPosesAtTime(h, elapsed_time, blended_poses) ==
    /\ pc = "idle"
    /\ LET r == get_interpolated_poses_at_time(clips[h], elapsed_time,
                                               blended_poses)
       IN  Call("get_interpolated_poses_at_time", r.err, r.out, blended_poses,
                NoDef, h, elapsed_time, <<>>, 0)
    /\ UNCHANGED <<clips, tree>>

SetDuration(h, duration) ==
    /\ pc = "idle"
    /\ clips' = [clips EXCEPT ![h] = set_duration(clips[h], duration)]
    /\ Call("set_duration", "none", <<>>, <<>>, NoDef, h, Zero, <<>>, 0)
    /\ UNCHANGED tree

(***************************************************************************)
(* Spec: blend trees built by from_def over the registered clips and       *)
(* evaluated into buffers of JointCount or JointCount + 1 poses            *)
(***************************************************************************)
Next ==
    \/ \E def \in Defs : FromDef(def)
    \/ \E t \in Times, params \in ParamMaps,
          L \in {JointCount, JointCount + 1}, fill \in Fills :
          GetOutputPose(t, params, Buffer(L, fill))
    \/ Return

Spec == Init /\ [][Next]_vars

(***************************************************************************)
(* SpecClip: the AnimationClip operations on their own                     *)
(***************************************************************************)
NextClip ==
    \/ \E h \in Handles, t \in Times : SampleAtTime(h, t)
    \/ \E h \in Handles, t \in Times,
          L \in {JointCount - 1, JointCount, JointCount + 1}, fill \in Fills :
          GetInterpolatedPosesAtTime(h, t, Buffer(L, fill))
    \/ \E h \in Handles, d \in Durations : SetDuration(h, d)
    \/ Return

SpecClip == Init /\ [][NextClip]_vars

(***************************************************************************)
(* SpecScratch: blend trees evaluated into buffers at and just above the   *)
(* capacity of the Lerp scratch array                                      *)
(***************************************************************************)
ScratchTimes == {R(0, 1), R(1, 4)}

NextScratch ==
    \/ \E def \in Defs : FromDef(def)
    \/ \E t \in ScratchTimes, params \in ParamMaps,
          L \in {ScratchCap, ScratchCap + 1}, fill \in Fills :
          GetOutputPose(t, params, Buffer(L, fill))
    \/ Return

SpecScratch == Init /\ [][NextScratch]_vars

(***************************************************************************)
(* Global pose resolution.  A skeleton is the sequence of its joints'      *)
(* parent_index (0-based, 255 for a root joint); matrices are row-major    *)
(* 4x4, translation in column 3.                                           *)
(***************************************************************************)
MaxJoints == 3

is_root(parent_index) == parent_index = 255

mat4_id ==
    <<  <<One, Zero, Zero, Zero>>, <<Zero, One, Zero, Zero>>,
        <<Zero, Zero, One, Zero>>, <<Zero, Zero, Zero, One>> >>

row_mat4_mul(a, b) ==
    [i \in 1..4 |-> [j \in 1..4 |->
        RAdd(RAdd(RMul(a[i][1], b[1][j]), RMul(a[i][2], b[2][j])),
             RAdd(RMul(a[i][3], b[3][j]), RMul(a[i][4], b[4][j])))]]

Two == R(2, 1)

quaternion_to_matrix(q) ==
    LET w == q[1]  x == q[2]  y == q[3]  z == q[4]
        xx == RMul(Two, RMul(x, x))  yy == RMul(Two, RMul(y, y))
        zz == RMul(Two, RMul(z, z))  xy == RMul(Two, RMul(x, y))
        xz == RMul(Two, RMul(x, z))  yz == RMul(Two, RMul(y, z))
        wx == RMul(Two, RMul(w, x))  wy == RMul(Two, RMul(w, y))
        wz == RMul(Two, RMul(w, z))
    IN  <<  <<RSub(One, RAdd(yy, zz)), RSub(xy, wz), RAdd(xz, wy), Zero>>,
            <<RAdd(xy, wz), RSub(One, RAdd(xx, zz)), RSub(yz, wx), Zero>>,
            <<RSub(xz, wy), RAdd(yz, wx), RSub(One, RAdd(xx, yy)), Zero>>,
            <<Zero, Zero, Zero, One>> >>

\* the local 4x4 matrix calculate_global_poses builds from an SQT
LocalPoseMatrix(local_pose_sqt) ==
    LET m == quaternion_to_matrix(local_pose_sqt.rotation)
    IN  [i \in 1..4 |-> [j \in 1..4 |->
            IF j = 4 /\ i <= 3 THEN local_pose_sqt.translation[i] ELSE m[i][j]]]

\* parent_index sequences of n joints; a parent may be the joint itself or
\* the next joint, which breaks the parent-before-child order
Skeletons(n) ==
    {sk \in [1..n -> {255} \cup (0..(n - 1))] :
        \A i \in 1..n : sk[i] = 255 \/ sk[i] <= i}

QX == <<Zero, One, Zero, Zero>>

\* the local pose arrays passed: translations only; with rotations; with
\* scales other than 1; and one with a single pose
LocalPoseSets ==
    { [j \in 1..MaxJoints |-> SQT(One, V3(j, 2 * j, 0 - j), QW)],
      [j \in 1..MaxJoints |->
          SQT(One, V3(1, 0, j), IF j % 2 = 1 THEN QH ELSE QX)],
      [j \in 1..MaxJoints |-> SQT(R(j + 1, 1), V3(0, j, 1), QH)],
      <<SQT(One, V3(1, 1, 1), QW)>> }

\* parent_pose taken from the joint visited last instead of the parent
ParentPosePrevious(parent_index, globals) ==
    IF ~is_root(parent_index) THEN globals[Len(globals)] ELSE mat4_id

\* the parent_pose of a joint, given the global poses pushed so far
ParentPose(parent_index, globals) ==
    IF ~is_root(parent_index) THEN globals[parent_index + 1] ELSE mat4_id

CalculateGlobalPoses(skel, poses) ==
    /\ pc = "idle"
    /\ pc' = "resolving"
    /\ lastOp' = "calculate_global_poses"
    /\ skeleton' = skel
    /\ local_poses' = poses
    /\ global_poses' = <<>>
    /\ joint_index' = 0
    /\ UNCHANGED <<clips, tree, err, out, prior, lastDef, lastClip, lastT,
                   lastParams, sampleIdx>>

\* one iteration of the loop over skeleton.joints
ResolveJoint ==
    /\ pc = "resolving"
    /\ joint_index < Len(skeleton)
    /\ LET parent_index == skeleton[joint_index + 1]
       IN  IF ~is_root(parent_index) /\ parent_index >= Len(global_poses)
           THEN /\ err' = "index_out_of_bounds"
                /\ pc' = "done"
                /\ UNCHANGED <<global_poses, joint_index>>
           ELSE IF joint_index >= Len(local_poses)
           THEN /\ err' = "index_out_of_bounds"
                /\ pc' = "done"
                /\ UNCHANGED <<global_poses, joint_index>>
           ELSE LET parent_pose == ParentPose(parent_index, global_poses)
                    local_pose == LocalPoseMatrix(local_poses[joint_index + 1])
                IN  /\ global_poses' =
                          Append(global_poses, row_mat4_mul(parent_pose, local_pose))
                    /\ joint_index' = joint_index + 1
                    /\ UNCHANGED <<err, pc>>
    /\ UNCHANGED <<clips, tree, lastOp, out, prior, lastDef, lastClip, lastT,
                   lastParams, sampleIdx, skeleton, local_poses>>

\* the loop has visited every joint: global_poses is returned
ResolveDone ==
    /\ pc = "resolving"
    /\ joint_index = Len(skeleton)
    /\ pc' = "done"
    /\ UNCHANGED <<clips, tree, lastOp, err, out, prior, lastDef, lastClip,
                   lastT, lastParams, sampleIdx, poseVars>>

NextPose ==
    \/ \E n \in 1..MaxJoints, poses \in LocalPoseSets :
          \E skel \in Skeletons(n) : CalculateGlobalPoses(skel, poses)
    \/ ResolveJoint
    \/ ResolveDone
    \/ Return

SpecPose == Init /\ [][NextPose]_vars

(***************************************************************************)
(* Properties of global pose resolution (SpecPose)                         *)
(***************************************************************************)
Resolved == pc = "done" /\ lastOp = "calculate_global_poses"

\* every non-root joint has a parent index smaller than its own index
ParentsFirst(skel) ==
    \A i \in 1..Len(skel) : is_root(skel[i]) \/ skel[i] < i - 1

TranslationOf(m) == <<m[1][4], m[2][4], m[3][4]>>

VAdd(u, v) == [k \in 1..3 |-> RAdd(u[k], v[k])]

\* C3: for a skeleton whose non-root joints have a smaller parent index,
\* calculate_global_poses returns one matrix per joint, in joint order, with
\* global[i] = local_i for a root and global[parent(i)] * local_i otherwise
\* (no parent read is out of range); for a translation-only chain
\* root -> child -> grandchild the grandchild's global translation is the
\* sum of the three local translations.
C3_GlobalPoses ==
    (Resolved /\ ParentsFirst(skeleton) /\ Len(local_poses) >= Len(skeleton)) =>
        /\ err = "none"
        /\ Len(global_poses) = Len(skeleton)
        /\ \A i \in 1..Len(skeleton) :
              global_poses[i] =
                  IF is_root(skeleton[i])
                  THEN LocalPoseMatrix(local_poses[i])
                  ELSE row_mat4_mul(global_poses[skeleton[i] + 1],
                                    LocalPoseMatrix(local_poses[i]))
        /\ (/\ skeleton = <<255, 0, 1>>
            /\ \A i \in 1..3 : local_poses[i].rotation = QW) =>
              TranslationOf(global_poses[3]) =
                  VAdd(local_poses[1].translation,
                       VAdd(local_poses[2].translation,
                            local_poses[3].translation))

\* C3 witness: the chain with local translations (j, 2j, -j), j = 1..3
C3_Witness ==
    /\ Resolved
    /\ err = "none"
    /\ skeleton = <<255, 0, 1>>
    /\ \A i \in 1..3 : local_poses[i].rotation = QW
    /\ TranslationOf(global_poses[3]) = V3(6, 12, 0 - 6)

\* the local transform with the pose's uniform scale folded in
ScaledLocalPoseMatrix(sqt) ==
    LET m == quaternion_to_matrix(sqt.rotation)
    IN  [i \in 1..4 |-> [j \in 1..4 |->
            IF i <= 3 /\ j <= 3 THEN RMul(sqt.scale, m[i][j])
            ELSE IF i <= 3 THEN sqt.translation[i]
            ELSE m[i][j]]]

\* C8: the local transform built for joint i applies local_poses[i].scale:
\* its rotation block is the quaternion's rotation matrix times the scale,
\* its translation column the pose's translation, so the global matrices
\* depend on the scale of every joint on the parent chain.
C8_ScaleApplied ==
    (Resolved /\ err = "none") =>
        \A i \in 1..Len(skeleton) :
            global_poses[i] =
                row_mat4_mul(ParentPose(skeleton[i], global_poses),
                             ScaledLocalPoseMatrix(local_poses[i]))

(***************************************************************************)
(* Properties of AnimationClip (SpecClip)                                  *)
(***************************************************************************)
\* the blend the claims speak of: weights (1 - f, f) on scale and
\* translation, normalized quaternion blend on rotation
WeightedBlend(pose_1, pose_2, f) ==
    LET g == RSub(One, f)
    IN  SQT(RAdd(RMul(g, pose_1.scale), RMul(f, pose_2.scale)),
            [k \in 1..3 |-> RAdd(RMul(g, pose_1.translation[k]),
                                 RMul(f, pose_2.translation[k]))],
            lerp_quaternion(pose_1.rotation, pose_2.rotation, f))

InterpolatedCall ==
    /\ pc = "done"
    /\ lastOp = "get_interpolated_poses_at_time"
    /\ Len(clips[lastClip].samples) >= 1
    /\ Len(prior) >= JointCount

Looped(clip, t, k) ==
    RAdd(t, RMul(R(k, 1), RDiv(R(Len(clip.samples), 1), clip.samples_per_second)))

\* C6: every clip loops: for a clip of N >= 1 samples at rate r, every
\* t >= 0 and every whole number k of loops, sample_at_time(t + k*N/r)
\* returns the sample sample_at_time(t) returns (so sample_at_time(N/r) is
\* sample_at_time(0)), and get_interpolated_poses_at_time(t + k*N/r) writes
\* what it writes at t.
C6_Looping ==
    /\ (pc = "done" /\ lastOp = "sample_at_time"
          /\ Len(clips[lastClip].samples) >= 1) =>
          /\ err = "none"
          /\ \A k \in 0..MaxLoops :
                sample_at_time(clips[lastClip],
                               Looped(clips[lastClip], lastT, k)).index = sampleIdx
    /\ InterpolatedCall =>
          \A k \in 0..MaxLoops :
              get_interpolated_poses_at_time(
                  clips[lastClip], Looped(clips[lastClip], lastT, k), prior).out = out

\* C6 witness: clip C at rate 2, t = 7/4: index 3 wraps to sample 0
C6_Witness ==
    /\ pc = "done"
    /\ lastOp = "sample_at_time"
    /\ lastClip = 3
    /\ clips[3].samples_per_second = R(2, 1)
    /\ lastT = R(7, 4)
    /\ sampleIdx = 0

(***************************************************************************)
(* Properties of the blend tree (Spec, SpecScratch)                        *)
(***************************************************************************)
EvalCall == pc = "done" /\ lastOp = "get_output_pose"

\* what the children of the Lerp root write: input_1 into a scratch of
\* zeroed poses, input_2 into the buffer the caller passed
AOut ==
    get_output_pose(tree.input_1, clips, lastT, lastParams,
                    Buffer(Len(prior), ZeroSQT))

BOut == get_output_pose(tree.input_2, clips, lastT, lastParams, prior)

LerpCall ==
    /\ EvalCall
    /\ tree.type = "LerpNode"
    /\ tree.param \in DOMAIN lastParams
    /\ Len(prior) = JointCount
    /\ AOut.err = "none"
    /\ BOut.err = "none"

\* every out[i] is the blend of a's pose i and b's pose i by (1 - w, w)
LerpIsWeightedBlend ==
    LerpCall =>
        /\ err = "none"
        /\ \A i \in Joints :
              out[i] = WeightedBlend(AOut.out[i], BOut.out[i],
                                     lastParams[tree.param])

\* C1: for Lerp(a, b, p) with params[p] = w and a buffer of joint-count
\* length, every out[i] is the blend of a's pose i and b's pose i with
\* weights (1 - w, w); in particular w = 0 yields exactly a's output pose
\* and w = 1 exactly b's, for every joint.
C1_LerpBlend ==
    /\ LerpIsWeightedBlend
    /\ LerpCall =>
          \A i \in Joints :
              /\ lastParams[tree.param] = Zero => out[i] = AOut.out[i]
              /\ lastParams[tree.param] = One => out[i] = BOut.out[i]

RECURSIVE LerpParams(_)
LerpParams(node) ==
    IF node.type = "LerpNode"
    THEN {node.param} \cup LerpParams(node.input_1) \cup LerpParams(node.input_2)
    ELSE {}

\* C4: get_output_pose fails with the missing-parameter panic whenever any
\* Lerp node of the tree names a parameter absent from params, whatever the
\* weights of its ancestors; no default blend factor is used.
C4_MissingParam ==
    (EvalCall /\ ~(LerpParams(tree) \subseteq DOMAIN lastParams)) =>
        err = "missing_param"

\* C4 witness: the inner Lerp of Lerp(Lerp(A, B, "w"), B, "v") lacks "w"
\* while v = 1 gives its output weight 0
C4_Witness ==
    /\ EvalCall
    /\ tree = LerpNode(LerpNode(ClipNode(1), ClipNode(2), "w"), ClipNode(2), "v")
    /\ DOMAIN lastParams = {"v"}
    /\ lastParams["v"] = One
    /\ err = "missing_param"

RECURSIVE DefClipIds(_)
DefClipIds(def) ==
    IF def.type = "LerpNode"
    THEN DefClipIds(def.input_1) \cup DefClipIds(def.input_2)
    ELSE {def.clip_id}

\* node has the shape and parameter names of def, and every Clip leaf holds
\* the clip the mapping stores under the leaf's identifier
RECURSIVE BoundTo(_, _)
BoundTo(node, def) ==
    /\ node.type = def.type
    /\ IF def.type = "LerpNode"
       THEN /\ node.param = def.param
            /\ BoundTo(node.input_1, def.input_1)
            /\ BoundTo(node.input_2, def.input_2)
       ELSE node.clip = animations[def.clip_id]

\* C5: from_def fails with the missing-clip panic if any Clip leaf of the
\* definition names an identifier absent from the mapping; otherwise it
\* returns a tree of the definition's shape and parameter names whose Clip
\* leaves hold the very clips of the mapping.
C5_FromDef ==
    (pc = "done" /\ lastOp = "from_def") =>
        IF DefClipIds(lastDef) \subseteq DOMAIN animations
        THEN err = "none" /\ BoundTo(tree, lastDef)
        ELSE err = "missing_clip"

\* C5 witness: both leaves of Lerp(C, C, "v") hold the one clip C
C5_Witness ==
    /\ pc = "done"
    /\ lastOp = "from_def"
    /\ err = "none"
    /\ lastDef = DefLerp(DefClip("C"), DefClip("C"), "v")
    /\ tree.input_1.clip = 3
    /\ tree.input_2.clip = 3

\* C7 as stated: the whole output buffer after get_output_pose depends on
\* tree, clips, elapsed_time and params only, not on what it held before
C7_BufferIsFunctionOfInputs ==
    (EvalCall /\ err = "none") =>
        \A fill \in Fills :
            get_output_pose(tree, clips, lastT, lastParams,
                            Buffer(Len(prior), fill)).out = out

\* C7 amended: the poses of the joints (the first JointCount entries of the
\* output buffer) after get_output_pose depend on tree, clips, elapsed_time
\* and params only, not on what the buffer held before.
C7_PoseIsFunctionOfInputs ==
    (EvalCall /\ err = "none") =>
        \A fill \in Fills : \A i \in Joints :
            get_output_pose(tree, clips, lastT, lastParams,
                            Buffer(Len(prior), fill)).out[i] = out[i]

\* C7 witness: a nested tree evaluated into a buffer that held other poses
C7_Witness ==
    /\ EvalCall
    /\ err = "none"
    /\ tree = LerpNode(ClipNode(4), LerpNode(ClipNode(3), ClipNode(4), "v"), "w")
    /\ prior = Buffer(JointCount, SQT(R(2, 1), V3(1, 2, 3), QW))
    /\ lastT = R(3, 4)
    /\ lastParams["w"] = R(1, 2)
    /\ lastParams["v"] = R(1, 2)

ScenarioCall ==
    /\ EvalCall
    /\ tree = LerpNode(ClipNode(1), ClipNode(2), "w")
    /\ clips[1] = AnimationClip(SamplesA, R(2, 1))
    /\ clips[2] = AnimationClip(SamplesB, R(2, 1))
    /\ lastT = R(1, 2)
    /\ "w" \in DOMAIN lastParams
    /\ lastParams["w"] = R(1, 2)
    /\ Len(prior) = JointCount

\* C9: with A and B two 2-sample clips at rate 2, A identity throughout
\* and B with translation [0,1,0] at sample 1 only, Lerp(A, B, "w") at
\* elapsed_time = 0.5 and w = 0.5 yields translation [0, 0.5, 0] for each
\* joint: A contributes [0,0,0], B its sample 1 translation [0,1,0].
C9_Scenario ==
    ScenarioCall =>
        /\ err = "none"
        /\ \A i \in Joints :
              /\ out[i].translation = <<Zero, R(1, 2), Zero>>
              /\ AOut.out[i].translation = V3(0, 0, 0)
              /\ BOut.out[i].translation = V3(0, 1, 0)

C9_Witness == ScenarioCall /\ err = "none"

\* C10: get_output_pose on a Lerp node with a buffer of L <= 64 poses never
\* fails for scratch capacity, at any nesting depth; for L > 64 it fails
\* taking the scratch slice, before either child is evaluated and with the
\* output buffer unchanged.
C10_ScratchCapacity ==
    (EvalCall /\ tree.type = "LerpNode") =>
        IF Len(prior) <= ScratchCap
        THEN err # "slice_out_of_range"
        ELSE err = "slice_out_of_range" /\ out = prior

\* C10 witness: 65 poses into a nested Lerp whose parameters are absent
C10_Witness ==
    /\ EvalCall
    /\ tree = LerpNode(LerpNode(ClipNode(1), ClipNode(2), "w"), ClipNode(2), "v")
    /\ Len(prior) = ScratchCap + 1
    /\ lastParams = <<>>
    /\ err = "slice_out_of_range"
    /\ out = prior

====
